---- MODULE Spec2Model ----
(***************************************************************************)
(* Model of esp-hal-embassy/src/time_driver.rs: the embassy time driver   *)
(* that multiplexes alarms over a pool of one-shot hardware timers.       *)
(*                                                                         *)
(* Every critical_section::with(..) closure of the source is one atomic   *)
(* action.  on_interrupt is two steps: the closure (lines 69-78) and the  *)
(* invocation of the snapshotted callback outside of it (lines 80-82).    *)
(* Driver calls made by another context (the task level, possibly on the  *)
(* other core) interleave with these steps; driver calls made by the      *)
(* callback itself happen while the dispatch is in its "cb" phase.        *)
(***************************************************************************)
EXTENDS Integers, Sequences, FiniteSets, TLC

\* time_driver.rs:12
MAX_SUPPORTED_ALARM_COUNT == 7

\* u64::MAX of time_driver.rs:140, on a tick counter scaled down to a few values.
MAX_TICKS == 3
\* The width of the tick arithmetic: values are taken modulo MAX_TICKS + 1.
TickModulus == MAX_TICKS + 1

\* Largest value the clock now() takes in the model.
MaxNow == 1
\* Number of init() calls explored.
MaxInits == 2
\* Number of alarms the scheduler allocates under Spec (SpecAlloc allocates freely).
MaxAlarms == 2
\* Longest accepted pool handed to init() under Spec (SpecAlloc hands every length).
MaxPoolLen == 2

VARIABLES
    alarms,     \* DRIVER.alarms: slot index -> [allocated, callback]
    TIMERS,     \* the static TIMERS: 0 for None, else the index in hw of the installed pool
    hw,         \* every timer slice handed to init so far, in order: Seq(Seq(timer))
    irq,        \* the interrupt dispatch in progress: [pc, id, cb]
    csHeld,     \* the critical section is held across an action boundary
    borrowed,   \* the RefCell of TIMERS is mutably borrowed across an action boundary
    handles,    \* the AlarmHandles allocate_alarm has returned, in order
    last        \* the step taken last: [op, by, h, ts, now, cb, ret]

vars == <<alarms, TIMERS, hw, irq, csHeld, borrowed, handles, last>>

Slots == 0 .. (MAX_SUPPORTED_ALARM_COUNT - 1)

\* Option::None of AlarmState.callback; a registered callback is <<fn, ctx>>.
None == <<>>
Callbacks == {<<"fA", "ctxA">>, <<"fB", "ctxB">>}

NoHandler == -1
NoHandle == -1

\* AlarmState::new()
AlarmStateNew == [callback |-> None, allocated |-> FALSE]

\* A hardware timer as it is handed to init: whatever state it was left in.
PriorTimer(dirty) ==
    [timeout |-> 0, running |-> dirty, inten |-> dirty, pending |-> FALSE,
     handler |-> NoHandler]

\* The Hardware Timer Capability (esp_hal::timer::OneShotTimer).
stop(t) == [t EXCEPT !.running = FALSE]
enable_interrupt(t, b) == [t EXCEPT !.inten = b]
schedule(t, timeout) == [t EXCEPT !.timeout = timeout, !.running = TRUE]
clear_interrupt(t) == [t EXCEPT !.pending = FALSE]
set_interrupt_handler(t, n) == [t EXCEPT !.handler = n]

\* HANDLERS shifted by one entry: HANDLERS[n] is handler n+1.
HANDLERSShifted(n) == n + 1

\* Every entry of HANDLERS being handler0.
HANDLERSAllZero(n) == 0

\* HANDLERS[n] is handlerN, which calls DRIVER.on_interrupt(n).
HANDLERS(n) == n

\* A step's label: the operation, who ran it, its arguments and its outcome.
Step(op, by, h, ts, t, cb, ret) ==
    [op |-> op, by |-> by, h |-> h, ts |-> ts, now |-> t, cb |-> cb, ret |-> ret]

\* A panic: the process stops.
Aborted == last.ret = "abort"

\* Who makes a driver call: the task level, or the callback a dispatch is running.
Callers == {"task", "cb"}
CanCall(c) ==
    /\ ~Aborted
    /\ IF c = "task" THEN ~csHeld ELSE irq.pc = "cb"

IrqIdle == [pc |-> "idle", id |-> NoHandle, cb |-> None]

Init ==
    /\ alarms = [i \in Slots |-> AlarmStateNew]
    /\ TIMERS = 0
    /\ hw = <<>>
    /\ irq = IrqIdle
    /\ csHeld = FALSE
    /\ borrowed = FALSE
    /\ handles = <<>>
    /\ last = Step("boot", "task", NoHandle, 0, 0, None, "unit")

\* The closure of init without the binding of the handlers of slots allocated earlier.
InitTimerNoBind(t, n) == stop(enable_interrupt(t, FALSE))

\* The closure of EmbassyTimer::init applied to timer n (0-based) of the slice.
InitTimer(t, n) ==
    LET r == stop(enable_interrupt(t, FALSE))
    IN  IF alarms[n].allocated THEN set_interrupt_handler(r, HANDLERS(n)) ELSE r

\* The length check off by one: a pool of exactly MAX_SUPPORTED_ALARM_COUNT is refused.
tooManyTimersOffByOne(len) == len >= MAX_SUPPORTED_ALARM_COUNT

\* The length check of EmbassyTimer::init.
tooManyTimers(len) == len > MAX_SUPPORTED_ALARM_COUNT

\* EmbassyTimer::init(timers), the slice being len timers left in state PriorTimer(dirty).
init(len, dirty) ==
    LET timers == [n \in 1 .. len |-> PriorTimer(dirty)]
    IN  /\ CanCall("task")
        /\ IF tooManyTimers(len)
           THEN /\ hw' = Append(hw, timers)
                /\ last' = Step("init", "task", NoHandle, len, 0, None, "abort")
                /\ UNCHANGED <<alarms, TIMERS>>
           ELSE /\ hw' = Append(hw, [n \in 1 .. len |-> InitTimer(timers[n], n - 1)])
                /\ TIMERS' = Len(hw) + 1
                /\ last' = Step("init", "task", NoHandle, len, 0, None, "unit")
                /\ UNCHANGED alarms
        /\ UNCHANGED <<irq, csHeld, borrowed, handles>>

\* The scan run from the top: the highest index that is not allocated.
FirstFreeFromTop(a, i) ==
    LET free == {j \in i .. (MAX_SUPPORTED_ALARM_COUNT - 1) : ~a[j].allocated}
    IN  IF free = {} THEN MAX_SUPPORTED_ALARM_COUNT
        ELSE CHOOSE j \in free : \A k \in free : k <= j

\* The scan with the `continue` on an allocated slot lost: the slot is taken again.
FirstFreeNoSkip(a, i) ==
    IF i >= MAX_SUPPORTED_ALARM_COUNT THEN MAX_SUPPORTED_ALARM_COUNT ELSE i

\* The scan of allocate_alarm: the first index at or after i that is not allocated,
\* MAX_SUPPORTED_ALARM_COUNT when the loop runs off the end.
RECURSIVE FirstFree(_, _)
FirstFree(a, i) ==
    IF i >= MAX_SUPPORTED_ALARM_COUNT THEN MAX_SUPPORTED_ALARM_COUNT
    ELSE IF a[i].allocated THEN FirstFree(a, i + 1)
    ELSE i

\* allocate_alarm with the unwrap! of timer.get_mut(i) replaced by a silent skip.
allocate_alarm_no_unwrap(c) ==
    LET i == FirstFree(alarms, 0)
    IN  /\ CanCall(c)
        /\ IF i = MAX_SUPPORTED_ALARM_COUNT
           THEN /\ last' = Step("allocate_alarm", c, NoHandle, 0, 0, None, "none")
                /\ UNCHANGED <<alarms, hw, handles>>
           ELSE /\ hw' = IF TIMERS # 0 /\ i < Len(hw[TIMERS])
                         THEN [hw EXCEPT ![TIMERS][i + 1] =
                                  set_interrupt_handler(@, HANDLERS(i))]
                         ELSE hw
                /\ alarms' = [alarms EXCEPT ![i].allocated = TRUE]
                /\ handles' = Append(handles, i)
                /\ last' = Step("allocate_alarm", c, i, 0, 0, None, "some")
        /\ UNCHANGED <<TIMERS, irq, csHeld, borrowed>>

\* Driver::allocate_alarm
allocate_alarm(c) ==
    LET i == FirstFree(alarms, 0)
    IN  /\ CanCall(c)
        /\ IF i = MAX_SUPPORTED_ALARM_COUNT
           THEN /\ last' = Step("allocate_alarm", c, NoHandle, 0, 0, None, "none")
                /\ UNCHANGED <<alarms, hw, handles>>
           ELSE IF borrowed \/ (TIMERS # 0 /\ i >= Len(hw[TIMERS]))
           THEN /\ last' = Step("allocate_alarm", c, NoHandle, 0, 0, None, "abort")
                /\ UNCHANGED <<alarms, hw, handles>>
           ELSE /\ hw' = IF TIMERS # 0
                         THEN [hw EXCEPT ![TIMERS][i + 1] =
                                  set_interrupt_handler(@, HANDLERS(i))]
                         ELSE hw
                /\ alarms' = [alarms EXCEPT ![i].allocated = TRUE]
                /\ handles' = Append(handles, i)
                /\ last' = Step("allocate_alarm", c, i, 0, 0, None, "some")
        /\ UNCHANGED <<TIMERS, irq, csHeld, borrowed>>

\* set_alarm_callback storing a fresh AlarmState that holds the callback: the
\* allocated flag of the slot is lost.
set_alarm_callback_fresh(c, n, cb) ==
    /\ CanCall(c)
    /\ alarms' = [alarms EXCEPT ![n] = [AlarmStateNew EXCEPT !.callback = cb]]
    /\ last' = Step("set_alarm_callback", c, n, 0, 0, cb, "unit")
    /\ UNCHANGED <<TIMERS, hw, irq, csHeld, borrowed, handles>>

\* set_alarm_callback storing the function and the context apart: the function is
\* replaced, the context of a callback already there is kept.
set_alarm_callback_torn(c, n, cb) ==
    /\ CanCall(c)
    /\ alarms' = [alarms EXCEPT
                     ![n].callback = IF @ = None THEN cb ELSE <<cb[1], @[2]>>]
    /\ last' = Step("set_alarm_callback", c, n, 0, 0, cb, "unit")
    /\ UNCHANGED <<TIMERS, hw, irq, csHeld, borrowed, handles>>

\* set_alarm_callback keeping the callback a slot already has.
set_alarm_callback_once(c, n, cb) ==
    /\ CanCall(c)
    /\ alarms' = [alarms EXCEPT ![n].callback = IF @ = None THEN cb ELSE @]
    /\ last' = Step("set_alarm_callback", c, n, 0, 0, cb, "unit")
    /\ UNCHANGED <<TIMERS, hw, irq, csHeld, borrowed, handles>>

\* Driver::set_alarm_callback
set_alarm_callback(c, n, cb) ==
    /\ CanCall(c)
    /\ alarms' = [alarms EXCEPT ![n].callback = cb]
    /\ last' = Step("set_alarm_callback", c, n, 0, 0, cb, "unit")
    /\ UNCHANGED <<TIMERS, hw, irq, csHeld, borrowed, handles>>

\* The timeout without the clamp of a timestamp in the past: the subtraction wraps.
armTimeoutNoClamp(ts, t) == (ts - t) % TickModulus

\* The timeout EmbassyTimer::arm computes from the timestamp and the clock reading t,
\* in the width of the tick counter.
armTimeout(ts, t) == IF ts > t THEN (ts - t) % TickModulus ELSE 0

\* arm without its last line: the timeout is scheduled, the interrupt not enabled.
armNoEnable(timer, timestamp, t) == schedule(timer, armTimeout(timestamp, t))

\* EmbassyTimer::arm, t being what now() returns.
arm(timer, timestamp, t) ==
    enable_interrupt(schedule(timer, armTimeout(timestamp, t)), TRUE)

\* The sentinel test lost: u64::MAX is armed like any other timestamp.
isSentinelNever(timestamp) == FALSE

\* The early return of set_alarm.
isSentinel(timestamp) == timestamp = MAX_TICKS

\* set_alarm silently doing nothing where the source unwraps and indexes.
set_alarm_silent(c, id, timestamp, t) ==
    /\ CanCall(c)
    /\ IF isSentinel(timestamp) \/ borrowed \/ TIMERS = 0 \/ id >= Len(hw[TIMERS])
       THEN /\ last' = Step("set_alarm", c, id, timestamp, 0, None, "true")
            /\ UNCHANGED hw
       ELSE /\ hw' = [hw EXCEPT ![TIMERS][id + 1] = arm(@, timestamp, t)]
            /\ last' = Step("set_alarm", c, id, timestamp, t, None, "true")
    /\ UNCHANGED <<alarms, TIMERS, irq, csHeld, borrowed, handles>>

\* Driver::set_alarm, t being what now() returns if the call gets to arm.
set_alarm(c, id, timestamp, t) ==
    /\ CanCall(c)
    /\ IF isSentinel(timestamp)
       THEN /\ last' = Step("set_alarm", c, id, timestamp, 0, None, "true")
            /\ UNCHANGED hw
       ELSE IF borrowed \/ TIMERS = 0 \/ id >= Len(hw[TIMERS])
       THEN /\ last' = Step("set_alarm", c, id, timestamp, 0, None, "abort")
            /\ UNCHANGED hw
       ELSE /\ hw' = [hw EXCEPT ![TIMERS][id + 1] = arm(@, timestamp, t)]
            /\ last' = Step("set_alarm", c, id, timestamp, t, None, "true")
    /\ UNCHANGED <<alarms, TIMERS, irq, csHeld, borrowed, handles>>

\* The one-shot timer p/i runs out: its interrupt becomes pending.
Elapse(p, i) ==
    /\ ~Aborted
    /\ p <= Len(hw)
    /\ i < Len(hw[p])
    /\ hw[p][i + 1].running
    /\ hw' = [hw EXCEPT ![p][i + 1].running = FALSE, ![p][i + 1].pending = TRUE]
    /\ last' = Step("elapse", "hw", i, 0, 0, None, "unit")
    /\ UNCHANGED <<alarms, TIMERS, irq, csHeld, borrowed, handles>>

\* Handler n is raised: some timer has it bound, its interrupt enabled and pending.
Raised(n) ==
    \E p \in 1 .. Len(hw) : \E i \in 1 .. Len(hw[p]) :
        /\ hw[p][i].handler = n
        /\ hw[p][i].inten
        /\ hw[p][i].pending

\* on_interrupt with the callback invoked inside the closure: the critical section
\* and the borrow of TIMERS are still held when the callback runs.
on_interrupt_snapshot_held(id) ==
    /\ ~Aborted
    /\ ~csHeld
    /\ irq.pc = "idle"
    /\ Raised(id)
    /\ IF borrowed \/ TIMERS = 0 \/ id >= Len(hw[TIMERS])
       THEN /\ last' = Step("on_interrupt", "irq", id, 0, 0, None, "abort")
            /\ UNCHANGED <<hw, irq>>
       ELSE /\ hw' = [hw EXCEPT ![TIMERS][id + 1] = clear_interrupt(@)]
            /\ irq' = IF alarms[id].callback = None
                      THEN IrqIdle
                      ELSE [pc |-> "snap", id |-> id, cb |-> alarms[id].callback]
            /\ last' = Step("on_interrupt", "irq", id, 0, 0, alarms[id].callback, "unit")
    /\ csHeld' = (irq'.pc = "snap")
    /\ borrowed' = (irq'.pc = "snap")
    /\ UNCHANGED <<alarms, TIMERS, handles>>

\* on_interrupt unwrapping the callback of the slot: a slot without one aborts.
on_interrupt_snapshot_unwrap(id) ==
    /\ ~Aborted
    /\ ~csHeld
    /\ irq.pc = "idle"
    /\ Raised(id)
    /\ IF borrowed \/ TIMERS = 0 \/ id >= Len(hw[TIMERS])
       THEN /\ last' = Step("on_interrupt", "irq", id, 0, 0, None, "abort")
            /\ UNCHANGED <<hw, irq>>
       ELSE /\ hw' = [hw EXCEPT ![TIMERS][id + 1] = clear_interrupt(@)]
            /\ irq' = IF alarms[id].callback = None
                      THEN IrqIdle
                      ELSE [pc |-> "snap", id |-> id, cb |-> alarms[id].callback]
            /\ last' = Step("on_interrupt", "irq", id, 0, 0, alarms[id].callback,
                            IF alarms[id].callback = None THEN "abort" ELSE "unit")
    /\ csHeld' = FALSE
    /\ borrowed' = FALSE
    /\ UNCHANGED <<alarms, TIMERS, handles>>

\* on_interrupt reading the callback of slot 0 whatever the id.
on_interrupt_snapshot_slot0(id) ==
    /\ ~Aborted
    /\ ~csHeld
    /\ irq.pc = "idle"
    /\ Raised(id)
    /\ IF borrowed \/ TIMERS = 0 \/ id >= Len(hw[TIMERS])
       THEN /\ last' = Step("on_interrupt", "irq", id, 0, 0, None, "abort")
            /\ UNCHANGED <<hw, irq>>
       ELSE /\ hw' = [hw EXCEPT ![TIMERS][id + 1] = clear_interrupt(@)]
            /\ irq' = IF alarms[0].callback = None
                      THEN IrqIdle
                      ELSE [pc |-> "snap", id |-> id, cb |-> alarms[0].callback]
            /\ last' = Step("on_interrupt", "irq", id, 0, 0, alarms[0].callback, "unit")
    /\ csHeld' = FALSE
    /\ borrowed' = FALSE
    /\ UNCHANGED <<alarms, TIMERS, handles>>

\* on_interrupt(id), lines 69-78: the critical section that clears the interrupt
\* and snapshots the callback; the section and the borrow end with the closure.
on_interrupt_snapshot(id) ==
    /\ ~Aborted
    /\ ~csHeld
    /\ irq.pc = "idle"
    /\ Raised(id)
    /\ IF borrowed \/ TIMERS = 0 \/ id >= Len(hw[TIMERS])
       THEN /\ last' = Step("on_interrupt", "irq", id, 0, 0, None, "abort")
            /\ UNCHANGED <<hw, irq>>
       ELSE /\ hw' = [hw EXCEPT ![TIMERS][id + 1] = clear_interrupt(@)]
            /\ irq' = IF alarms[id].callback = None
                      THEN IrqIdle
                      ELSE [pc |-> "snap", id |-> id, cb |-> alarms[id].callback]
            /\ last' = Step("on_interrupt", "irq", id, 0, 0, alarms[id].callback, "unit")
    /\ csHeld' = FALSE
    /\ borrowed' = FALSE
    /\ UNCHANGED <<alarms, TIMERS, handles>>

\* on_interrupt(id), lines 80-82: f(ctx) on the snapshot.
on_interrupt_invoke ==
    /\ ~Aborted
    /\ irq.pc = "snap"
    /\ irq' = [irq EXCEPT !.pc = "cb"]
    /\ last' = Step("callback", "irq", irq.id, 0, 0, irq.cb, "unit")
    /\ UNCHANGED <<alarms, TIMERS, hw, csHeld, borrowed, handles>>

\* The callback returns, and on_interrupt with it.
on_interrupt_return ==
    /\ ~Aborted
    /\ irq.pc = "cb"
    /\ irq' = IrqIdle
    /\ last' = Step("return", "irq", irq.id, 0, 0, None, "unit")
    /\ UNCHANGED <<alarms, TIMERS, hw, csHeld, borrowed, handles>>

\* The handles the caller holds.
Held == {handles[k] : k \in 1 .. Len(handles)}

\* Pool lengths handed to init under Spec: up to MaxPoolLen, and one too long.
PoolLens == (0 .. MaxPoolLen) \cup {MAX_SUPPORTED_ALARM_COUNT + 1}
\* Every pool length: the accepted ones and one too long.
AllPoolLens == 0 .. (MAX_SUPPORTED_ALARM_COUNT + 1)
Times == 0 .. MaxNow
Timestamps == 0 .. MAX_TICKS

\* init is called once (spec 4.2: "called at most once").
Install == \E len \in PoolLens, dirty \in BOOLEAN : hw = <<>> /\ init(len, dirty)
Allocate == \E c \in Callers : Len(handles) < MaxAlarms /\ allocate_alarm(c)
SetCallback == \E c \in Callers, h \in Held, cb \in Callbacks : set_alarm_callback(c, h, cb)
SetAlarm == \E c \in Callers, h \in Held, ts \in Timestamps, t \in Times : set_alarm(c, h, ts, t)
TimerElapses == \E p \in 1 .. Len(hw) : \E i \in 0 .. (Len(hw[p]) - 1) : Elapse(p, i)
Interrupt == \E id \in Slots : on_interrupt_snapshot(id)

Next ==
    \/ Install
    \/ Allocate
    \/ SetCallback
    \/ SetAlarm
    \/ TimerElapses
    \/ Interrupt
    \/ on_interrupt_invoke
    \/ on_interrupt_return

Spec == Init /\ [][Next]_vars

\* Allocation and installation alone, at full capacity and with every pool length.
InstallAny == \E len \in AllPoolLens, dirty \in BOOLEAN : hw = <<>> /\ init(len, dirty)
AllocateAny == allocate_alarm("task")

NextAlloc ==
    \/ InstallAny
    \/ AllocateAny

SpecAlloc == Init /\ [][NextAlloc]_vars

\* The timers and handlers that exist under Spec.
PoolSlots == 0 .. (MaxPoolLen - 1)

\* The hardware and the interrupt controller make progress: a running one-shot
\* timer runs out, a raised interrupt is serviced, a dispatch runs to its end.
Fairness ==
    /\ \A i \in PoolSlots : WF_vars(Elapse(1, i))
    /\ \A id \in PoolSlots : SF_vars(on_interrupt_snapshot(id))
    /\ WF_vars(on_interrupt_invoke)
    /\ WF_vars(on_interrupt_return)

SpecFair == Spec /\ Fairness

\* init called again after an installation, with neither callbacks nor their dispatch.
Reinstall ==
    \E len \in PoolLens, dirty \in BOOLEAN :
        hw # <<>> /\ Len(hw) < MaxInits /\ init(len, dirty)

NextReinit ==
    \/ Install
    \/ Reinstall
    \/ Allocate
    \/ SetAlarm
    \/ TimerElapses
    \/ Interrupt

SpecReinit == Init /\ [][NextReinit]_vars

(***************************************************************************)
(* Properties.                                                             *)
(***************************************************************************)

NoDuplicates(seq) == \A j, k \in 1 .. Len(seq) : j # k => seq[j] # seq[k]
Installed == TIMERS # 0
PoolLen == Len(hw[TIMERS])
FreeSlots == {i \in Slots : ~alarms[i].allocated}
\* The lowest free slot is not covered by the installed pool.
FirstFreeBeyondPool ==
    /\ Installed
    /\ \E i \in FreeSlots : (\A j \in FreeSlots : i <= j) /\ i >= PoolLen

\* C1 as claimed: whatever the state of the Timer Pool, the handles handed out are
\* pairwise distinct, every allocate_alarm call returns a handle until
\* MAX_SUPPORTED_ALARM_COUNT of them are out, and only then returns none.
C1_AllocationExhaustion ==
    /\ NoDuplicates(handles)
    /\ last.op = "allocate_alarm" =>
          \/ last.ret = "some"
          \/ last.ret = "none" /\ Len(handles) = MAX_SUPPORTED_ALARM_COUNT

\* C1 amended: a call made with k handles out returns none if k = CAPACITY, aborts
\* if the pool is installed with a length <= k, and otherwise returns a handle that
\* no earlier call returned; so CAPACITY calls give CAPACITY distinct handles when
\* the pool is absent or has CAPACITY timers.
C1_AllocationExhaustionAmended ==
    [][last'.op = "allocate_alarm" =>
          LET k == Len(handles)
          IN  IF k = MAX_SUPPORTED_ALARM_COUNT
              THEN last'.ret = "none" /\ handles' = handles
              ELSE IF Installed /\ k >= PoolLen
              THEN last'.ret = "abort" /\ handles' = handles
              ELSE /\ last'.ret = "some"
                   /\ last'.h \in Slots \ Held
                   /\ handles' = Append(handles, last'.h)]_vars

\* C1 witness: the (CAPACITY+1)-th call returned none with a full pool installed.
C1_Witness ==
    /\ last.op = "allocate_alarm"
    /\ last.ret = "none"
    /\ Cardinality(Held) = MAX_SUPPORTED_ALARM_COUNT
    /\ Installed
    /\ PoolLen = MAX_SUPPORTED_ALARM_COUNT

\* C2 as claimed: allocate_alarm never aborts.
C2_NeverAborts == ~(last.op = "allocate_alarm" /\ last.ret = "abort")

\* C2 amended: allocate_alarm has two failure modes. It returns none exactly when
\* every slot is allocated, and it aborts exactly when a slot is free, the pool is
\* installed and the lowest free index is not less than the pool length; in every
\* other state it returns a handle. A failed call changes nothing.
C2_FailureModes ==
    [][last'.op = "allocate_alarm" =>
          /\ last'.ret = "none" <=> FreeSlots = {}
          /\ last'.ret = "abort" <=> FirstFreeBeyondPool
          /\ last'.ret \in {"none", "abort", "some"}
          /\ last'.ret # "some" => UNCHANGED <<alarms, TIMERS, hw, handles>>]_vars

\* C2 witness: a call aborted on a pool shorter than the slots already allocated.
C2_Witness ==
    /\ last.op = "allocate_alarm"
    /\ last.ret = "abort"
    /\ Installed
    /\ PoolLen < Len(handles)

\* The slot a set_alarm call names has an installed timer.
HasTimer(h) == Installed /\ h < PoolLen

\* C3: set_alarm(h, MAX_TICKS) returns true and changes no hardware timer (timeout,
\* interrupt enable, pending, running, handler), nor the Alarm Table, nor the pool
\* reference, whether the pool is installed or not.
C3_SentinelArm ==
    [][last'.op = "set_alarm" /\ last'.ts = MAX_TICKS =>
          /\ last'.ret = "true"
          /\ last'.h \in Held
          /\ UNCHANGED <<hw, alarms, TIMERS, irq, handles>>]_vars

\* C3 witness: the sentinel call returned true on a handle whose timer was armed
\* earlier and is still running with its interrupt enabled.
C3_Witness ==
    /\ last.op = "set_alarm"
    /\ last.ts = MAX_TICKS
    /\ last.ret = "true"
    /\ HasTimer(last.h)
    /\ hw[TIMERS][last.h + 1].running
    /\ hw[TIMERS][last.h + 1].inten

\* C4 as claimed: every set_alarm call made with no pool installed, or with an index
\* not less than the pool length, aborts, for every target time.
C4_AbortsForEveryTime ==
    last.op = "set_alarm" /\ ~HasTimer(last.h) => last.ret = "abort"

\* C4 amended: every such call with a target time other than MAX_TICKS aborts and
\* changes nothing; with MAX_TICKS it returns true (C3).
C4_AbortsUnlessSentinel ==
    [][last'.op = "set_alarm" /\ ~HasTimer(last'.h) /\ last'.ts # MAX_TICKS =>
          /\ last'.ret = "abort"
          /\ UNCHANGED <<hw, alarms, TIMERS, irq, handles>>]_vars

\* C4 witness: a call on an allocated handle beyond the installed pool aborted.
C4_Witness ==
    /\ last.op = "set_alarm"
    /\ last.ret = "abort"
    /\ Installed
    /\ last.h \in Held
    /\ last.h >= PoolLen

ArmedWithCallback(h) ==
    /\ last.op = "set_alarm"
    /\ last.h = h
    /\ last.ts # MAX_TICKS
    /\ last.ret = "true"
    /\ alarms[h].callback # None
\* Dispatch has just invoked the callback of slot h.
CallbackInvoked(h) == last.op = "callback" /\ last.h = h

\* The process was stopped by a later driver call that broke its precondition.
AbortedByCall == Aborted /\ last.op \in {"allocate_alarm", "set_alarm"}

\* C6: once a non-sentinel set_alarm has returned true on a handle with a registered
\* callback, that slot's callback is eventually invoked, given that the timer runs
\* out and its interrupt is serviced (Fairness), unless a later allocate_alarm or
\* set_alarm call aborts the process, which then services no interrupt. No further
\* set_alarm call is needed, and the order of init, allocate_alarm and
\* set_alarm_callback before the arm is free.
C6_ArmedCallbackFires ==
    \A h \in PoolSlots :
        [](ArmedWithCallback(h) => <>(CallbackInvoked(h) \/ AbortedByCall))

\* C6 witness: the callback of a slot was invoked after its timer ran out and the
\* dispatch cleared the interrupt, and no step aborted.
C6_Witness ==
    /\ last.op = "callback"
    /\ HasTimer(last.h)
    /\ alarms[last.h].callback = last.cb
    /\ ~hw[TIMERS][last.h + 1].running
    /\ ~hw[TIMERS][last.h + 1].pending
    /\ hw[TIMERS][last.h + 1].inten

\* C7 as claimed: the callback a dispatch invokes is the one registered on the slot
\* at the time of the invocation, even if the snapshot was taken before an overwrite.
C7_OverwrittenNeverInvoked ==
    last.op = "callback" => last.cb = alarms[last.h].callback

\* C7 amended: the snapshot step of a dispatch reads the callback registered on its
\* slot at that moment, so a dispatch whose snapshot comes after the overwrite invokes
\* B only; the invocation step invokes the snapshot, which is A when the snapshot was
\* taken before the overwrite.
C7_SnapshotInvoked ==
    [][(last'.op = "on_interrupt" /\ last'.ret # "abort" =>
            /\ last'.cb = alarms[last'.h].callback
            /\ irq'.cb = alarms[last'.h].callback
            /\ irq'.pc = "snap" <=> alarms[last'.h].callback # None
            /\ irq'.pc = "snap" => irq'.id = last'.h)
       /\ (last'.op = "callback" =>
            /\ irq.pc = "snap"
            /\ last'.cb = irq.cb
            /\ last'.h = irq.id)]_vars

\* C7 witness: a dispatch invoked the callback it had snapshotted although the slot
\* has been given another callback since.
C7_Witness ==
    /\ last.op = "callback"
    /\ last.cb # alarms[last.h].callback
    /\ alarms[last.h].callback # None

\* C8: while a dispatch is between its snapshot and its return, neither the critical
\* section nor the borrow of TIMERS is held; a driver call made by the callback
\* fails only where the same call fails at task level, a set_alarm it makes on an
\* installed slot (its own included) arms the timer and returns true, a
\* set_alarm_callback it makes stores the callback, and a stored callback changes
\* only by a set_alarm_callback on that slot.
C8_ReentrancySafety ==
    /\ [](irq.pc # "idle" => ~csHeld /\ ~borrowed)
    /\ [][last'.by = "cb" =>
            /\ irq.pc = "cb"
            /\ last'.ret = "abort" =>
                  \/ last'.op = "set_alarm" /\ ~HasTimer(last'.h)
                  \/ last'.op = "allocate_alarm" /\ FirstFreeBeyondPool
            /\ last'.op = "set_alarm" /\ last'.ts # MAX_TICKS /\ HasTimer(last'.h) =>
                  /\ last'.ret = "true"
                  /\ hw'[TIMERS][last'.h + 1].running
                  /\ hw'[TIMERS][last'.h + 1].inten
            /\ last'.op = "set_alarm_callback" =>
                  /\ last'.ret = "unit"
                  /\ alarms'[last'.h].callback = last'.cb]_vars
    /\ [][\A i \in Slots : alarms'[i].callback # alarms[i].callback =>
            last'.op = "set_alarm_callback" /\ last'.h = i]_vars

\* C8 witness: the callback of a slot re-armed its own handle while it was running.
C8_Witness ==
    /\ irq.pc = "cb"
    /\ last.by = "cb"
    /\ last.op = "set_alarm"
    /\ last.h = irq.id
    /\ last.ts # MAX_TICKS
    /\ last.ret = "true"

\* C9: init aborts exactly when the slice is longer than MAX_SUPPORTED_ALARM_COUNT,
\* and then no timer of the slice has been touched and the shared state is as it
\* was; every length from 0 to MAX_SUPPORTED_ALARM_COUNT is installed.
C9_InitLengthCheck ==
    [][last'.op = "init" =>
          LET len == last'.ts
          IN  /\ Len(hw') = Len(hw) + 1
              /\ SubSeq(hw', 1, Len(hw)) = hw
              /\ Len(hw'[Len(hw')]) = len
              /\ IF len > MAX_SUPPORTED_ALARM_COUNT
                 THEN /\ last'.ret = "abort"
                      /\ \E dirty \in BOOLEAN :
                            \A n \in 1 .. len : hw'[Len(hw')][n] = PriorTimer(dirty)
                      /\ UNCHANGED <<alarms, TIMERS, irq, handles>>
                 ELSE /\ last'.ret = "unit"
                      /\ TIMERS' = Len(hw')
                      /\ \A n \in 1 .. len :
                            /\ ~hw'[TIMERS'][n].running
                            /\ ~hw'[TIMERS'][n].inten
                      /\ UNCHANGED <<alarms, irq, handles>>]_vars

\* C9 witness: init aborted on MAX_SUPPORTED_ALARM_COUNT + 1 timers that were left
\* running, and they still run; no pool is installed.
C9_Witness ==
    /\ last.op = "init"
    /\ last.ret = "abort"
    /\ last.ts = MAX_SUPPORTED_ALARM_COUNT + 1
    /\ ~Installed
    /\ hw[Len(hw)][1].running
    /\ hw[Len(hw)][1].inten

\* A timer of the installed pool is armed with a handler bound.
PoolArmed ==
    /\ Installed
    /\ \E i \in 1 .. PoolLen :
          /\ hw[TIMERS][i].running
          /\ hw[TIMERS][i].inten
          /\ hw[TIMERS][i].handler # NoHandler

\* C10: an init call made after a successful installation, while a timer of the
\* installed pool is armed with its handler bound, is rejected or leaves the
\* installed pool and its timers as they were.
C10_IdempotentInstall ==
    [][last'.op = "init" /\ PoolArmed =>
          \/ last'.ret = "abort"
          \/ TIMERS' = TIMERS /\ hw'[TIMERS] = hw[TIMERS]]_vars

(***************************************************************************)
(* The dispatch isolation scenario: MaxPoolLen timers installed, as many   *)
(* handles allocated, a distinct callback on each, one handle armed once.  *)
(***************************************************************************)

\* The callback the scenario registers on handle h: one per handle.
CallbackOf(h) == <<"fn", ToString(h)>>

\* The interrupt of the timer of slot i has not been enabled since init.
NeverArmed(i) == ~hw[TIMERS][i + 1].inten

IsoInstall == \E dirty \in BOOLEAN : hw = <<>> /\ init(MaxPoolLen, dirty)
IsoAllocate == Len(handles) < MaxPoolLen /\ allocate_alarm("task")
IsoSetCallback ==
    \E h \in Held :
        alarms[h].callback = None /\ set_alarm_callback("task", h, CallbackOf(h))
IsoReady ==
    /\ TIMERS # 0
    /\ Len(handles) = MaxPoolLen
    /\ \A h \in Held : alarms[h].callback = CallbackOf(h)
\* set_alarm is called with a time other than MAX_TICKS while no handle has been
\* armed: one handle only is armed.
IsoArm ==
    \E h \in Held, ts \in Timestamps \ {MAX_TICKS}, t \in Times :
        /\ IsoReady
        /\ \A i \in Held : NeverArmed(i)
        /\ set_alarm("task", h, ts, t)
\* set_alarm(h, MAX_TICKS) arms nothing: it is called on any handle at any time.
IsoDisarm == \E c \in Callers, h \in Held : set_alarm(c, h, MAX_TICKS, 0)

NextIsolation ==
    \/ IsoInstall
    \/ IsoAllocate
    \/ IsoSetCallback
    \/ IsoArm
    \/ IsoDisarm
    \/ TimerElapses
    \/ Interrupt
    \/ on_interrupt_invoke
    \/ on_interrupt_return

SpecIsolation == Init /\ [][NextIsolation]_vars /\ Fairness

\* The one timeout of slot h has been used up: armed, run out, dispatched.
Spent(h) ==
    /\ TIMERS # 0
    /\ h < Len(hw[TIMERS])
    /\ hw[TIMERS][h + 1].inten
    /\ ~hw[TIMERS][h + 1].running
    /\ ~hw[TIMERS][h + 1].pending
    /\ irq.pc # "snap"

\* C11: in the scenario, arming one handle with a time other than MAX_TICKS leads to
\* the invocation of that handle's callback (given Fairness); a callback is invoked
\* only for a handle that was armed, and it is that handle's own callback; the
\* invocation uses the timeout up, and once it is used up no callback is invoked
\* again: the armed handle's callback runs exactly once, the others never.
C11_DispatchIsolation ==
    /\ \A h \in PoolSlots :
          [](ArmedWithCallback(h) =>
                <>(CallbackInvoked(h) /\ last.cb = CallbackOf(h)))
    /\ [](last.op = "callback" =>
             /\ ~NeverArmed(last.h)
             /\ last.cb = CallbackOf(last.h)
             /\ Spent(last.h))
    /\ [][\A h \in PoolSlots :
             Spent(h) => Spent(h)' /\ last'.op # "callback"]_vars
    /\ [](last.op = "on_interrupt" => last.ret = "unit" /\ ~NeverArmed(last.h))

\* C11 witness: with two handles and their callbacks in place, handle 1 alone was
\* armed and its callback has been invoked; the timer of handle 0 was never armed.
C11_Witness ==
    /\ IsoReady
    /\ CallbackInvoked(1)
    /\ last.cb = CallbackOf(1)
    /\ Spent(1)
    /\ NeverArmed(0)

\* C12: set_alarm_callback(h, fn, ctx) returns normally and leaves <<fn, ctx>> as the
\* callback of slot h whatever the slot held; it changes no other slot's callback, no
\* allocated flag, no hardware timer and not the pool reference, the pool being
\* installed or not.
C12_SetCallbackFrame ==
    [][last'.op = "set_alarm_callback" =>
          /\ last'.ret = "unit"
          /\ last'.cb \in Callbacks
          /\ alarms'[last'.h].callback = last'.cb
          /\ \A i \in Slots \ {last'.h} : alarms'[i].callback = alarms[i].callback
          /\ \A i \in Slots : alarms'[i].allocated = alarms[i].allocated
          /\ UNCHANGED <<hw, TIMERS, irq, handles>>]_vars

\* C12 witness: with no pool installed, a callback was stored on one slot while the
\* other allocated slot holds the other callback.
C12_Witness ==
    /\ last.op = "set_alarm_callback"
    /\ ~Installed
    /\ alarms[last.h].callback = last.cb
    /\ \E i \in Held \ {last.h} :
          alarms[i].callback # None /\ alarms[i].callback # last.cb

\* C13: with set_alarm_callback called on handles allocate_alarm returned, a slot holds
\* a callback only if it is allocated, and no step resets an allocated flag.
C13_SlotInvariant ==
    /\ [](\A i \in Slots : alarms[i].callback # None => alarms[i].allocated)
    /\ [][\A i \in Slots : alarms[i].allocated => alarms'[i].allocated]_vars

\* C13 witness: init ran after a slot was allocated and given a callback, and the
\* slot is still allocated with its callback.
C13_Witness ==
    /\ last.op = "init"
    /\ last.ret = "unit"
    /\ \E i \in Held : alarms[i].allocated /\ alarms[i].callback # None

\* C14: once the pool is installed, every allocated slot has a timer of the pool:
\* its index is less than the pool length, also when it was allocated before init.
C14_AllocatedWithinPool ==
    Installed => \A i \in Slots : alarms[i].allocated => i < PoolLen

\* C15: in every interleaving of allocate_alarm calls with one init, once init has
\* completed every allocated slot i below the pool length has handler i bound to
\* timer i, and a timer of the pool has no other handler than its own; init binds
\* and publishes in one step, in which no slot is allocated.
C15_HandlerBinding ==
    /\ [](Installed =>
             \A i \in 0 .. (PoolLen - 1) :
                 /\ alarms[i].allocated => hw[TIMERS][i + 1].handler = i
                 /\ hw[TIMERS][i + 1].handler \in {NoHandler, i})
    /\ [][last'.op = "init" /\ last'.ret = "unit" =>
             /\ ~Installed
             /\ TIMERS' # 0
             /\ UNCHANGED <<alarms, handles>>]_vars

\* C15 witness: init has just bound the handler of a slot allocated before it and
\* left unbound a timer whose slot is free.
C15_Witness ==
    /\ last.op = "init"
    /\ last.ret = "unit"
    /\ \E i, j \in 0 .. (PoolLen - 1) :
          /\ alarms[i].allocated
          /\ hw[TIMERS][i + 1].handler = i
          /\ ~alarms[j].allocated
          /\ hw[TIMERS][j + 1].handler = NoHandler

\* C16: the callback of a slot is what the last set_alarm_callback on that slot
\* stored (none before the first): it changes in no other step, set_alarm included.
\* The snapshot step of a dispatch for slot i copies that value whole, and the
\* invocation step invokes the copy: a function and a context registered together,
\* never the function of one call with the context of another.
C16_SnapshotOrdering ==
    /\ [][\A i \in Slots :
             alarms'[i].callback # alarms[i].callback =>
                 /\ last'.op = "set_alarm_callback"
                 /\ last'.h = i
                 /\ alarms'[i].callback = last'.cb]_vars
    /\ [][last'.op = "on_interrupt" /\ irq'.pc = "snap" =>
             /\ irq'.id = last'.h
             /\ irq'.cb = alarms[last'.h].callback
             /\ irq'.cb \in Callbacks]_vars
    /\ [][last'.op = "callback" =>
             /\ last'.h = irq.id
             /\ last'.cb = irq.cb
             /\ last'.cb \in Callbacks]_vars
    /\ [](\A i \in Slots : alarms[i].callback \in Callbacks \cup {None})

\* C16 witness: a dispatch snapshotted the callback of its slot after the timer had
\* been armed again, by a set_alarm call later than the one whose timeout raised
\* the interrupt.
C16_Witness ==
    /\ last.op = "on_interrupt"
    /\ irq.pc = "snap"
    /\ irq.cb = alarms[irq.id].callback
    /\ HasTimer(irq.id)
    /\ hw[TIMERS][irq.id + 1].running

C18_EmptySlotDispatch ==
    [][last'.op = "on_interrupt" /\ HasTimer(last'.h)
          /\ alarms[last'.h].callback = None =>
          LET i == last'.h
          IN  /\ last'.ret = "unit"
              /\ last'.cb = None
              /\ irq' = IrqIdle
              /\ hw'[TIMERS][i + 1] = [hw[TIMERS][i + 1] EXCEPT !.pending = FALSE]
              /\ \A p \in 1 .. Len(hw) : \A k \in 1 .. Len(hw[p]) :
                    (p # TIMERS \/ k # i + 1) => hw'[p][k] = hw[p][k]
              /\ UNCHANGED <<alarms, TIMERS, handles>>]_vars

\* C18 witness: the interrupt of an armed timer whose slot has no callback was
\* dispatched; it is cleared, nothing is being invoked and nothing aborted.
C18_Witness ==
    /\ last.op = "on_interrupt"
    /\ last.ret = "unit"
    /\ HasTimer(last.h)
    /\ alarms[last.h].callback = None
    /\ irq = IrqIdle
    /\ ~hw[TIMERS][last.h + 1].pending
    /\ hw[TIMERS][last.h + 1].inten

\* C19: an allocate_alarm call that returns a handle returns the lowest index that is
\* not allocated and sets the allocated flag of that slot only; the allocated slots
\* are 0 .. k-1, k being the number of handles returned so far, the k-th of which is
\* k-1; with every slot allocated the call returns none and changes nothing.
C19_FirstFreeAllocation ==
    /\ []({i \in Slots : alarms[i].allocated} = 0 .. (Len(handles) - 1))
    /\ [](\A k \in 1 .. Len(handles) : handles[k] = k - 1)
    /\ [][last'.op = "allocate_alarm" =>
             /\ last'.ret = "some" =>
                   /\ last'.h \in FreeSlots
                   /\ \A j \in FreeSlots : last'.h <= j
                   /\ alarms' = [alarms EXCEPT ![last'.h].allocated = TRUE]
                   /\ handles' = Append(handles, last'.h)
             /\ FreeSlots = {} <=> last'.ret = "none"
             /\ last'.ret # "some" => UNCHANGED <<alarms, hw, TIMERS, handles>>]_vars

\* C19 witness: the fourth call returned index 3, after an init that came between
\* the allocations, and slots 0 .. 3 are the allocated ones.
C19_Witness ==
    /\ last.op = "allocate_alarm"
    /\ last.ret = "some"
    /\ last.h = 3
    /\ Installed
    /\ hw[TIMERS][1].handler = 0
    /\ {i \in Slots : alarms[i].allocated} = 0 .. 3

\* C20: with init called once and set_alarm called on handles allocate_alarm
\* returned, a timer that has a handler bound and its interrupt enabled is a timer
\* of the installed pool and its handler's index is less than the pool length; no
\* dispatch aborts.
C20_DispatchNeverAborts ==
    /\ \A p \in 1 .. Len(hw) : \A i \in 1 .. Len(hw[p]) :
          hw[p][i].handler # NoHandler /\ hw[p][i].inten =>
              /\ Installed
              /\ p = TIMERS
              /\ hw[p][i].handler >= 0
              /\ hw[p][i].handler < PoolLen
    /\ last.op = "on_interrupt" => last.ret = "unit"

\* C20 witness: the interrupt of the last timer of the pool was dispatched without
\* an abort while a slot beyond the pool is allocated.
C20_Witness ==
    /\ last.op = "on_interrupt"
    /\ last.ret = "unit"
    /\ Installed
    /\ last.h = PoolLen - 1
    /\ \E i \in Held : i >= PoolLen

====
